---- MODULE Spec2Model ----
(***************************************************************************)
(* vram_helper: a polling monitor that reads GPU memory usage and          *)
(* temperature from nvidia-smi and raises hysteresis-gated warnings        *)
(* through notify-send.  The model follows src/vram_helper/__main__.py.    *)
(*                                                                         *)
(* MAX_VRAM_USAGE and last_warning_vram become Python floats after a       *)
(* successful auto-detect (VRAM_TOTAL * .9).  They are held here in        *)
(* tenths of a MiB (Scale), which represents VRAM_TOTAL * .9 exactly;      *)
(* samples and VRAM_TOTAL are integers in MiB, as in the code.             *)
(***************************************************************************)
EXTENDS Integers, Sequences, FiniteSets, TLC

\* ---------------------------------------------------------------- bounds
MaxTicks == 5

\* ------------------------------------------------------ program constants
Scale == 10
THRESHOLD == 100
MAX_TEMP == 80
WAITTIME == 2
DEFAULT_MAX_VRAM_USAGE == 3800
DEFAULT_VRAM_TOTAL == 2048
ARM_MARGIN == 20

Step == THRESHOLD * Scale

\* VRAM_TOTAL as shipped, and as edited by a user following the module
\* docstring ("Make sure to update this variable").
ScriptTotals == {DEFAULT_VRAM_TOTAL, 8192}

\* memory.total values nvidia-smi may report to update_variables
DetectedTotals == {8192}

\* Usage profiles of the metrics source over one run, as offsets in MiB
\* from the integer part of MAX_VRAM_USAGE.
Workloads ==
    { {-800, 50, 150, -100, -150},
      {-1, 1, 101},
      {-300, 80, 81, 181, 281} }

Temps == {MAX_TEMP, MAX_TEMP + 5}

Unset == -1
NoExit == -1

VARIABLES
    pc,                 \* "main" | "monitoring" | "exited"
    AUTODETECT,
    VRAM_TOTAL,         \* MiB
    MAX_VRAM_USAGE,     \* tenths of MiB
    last_warning_vram,  \* tenths of MiB, Unset before start_monitoring
    workload,           \* offsets the metrics source draws from
    samples,            \* usage samples that reached the state machine
    gpu_temp,           \* last temperature sample, Unset before the first
    rearms,             \* ticks on which line 165 ran
    alerts,             \* warnings handed to send_vram_warning
    logged,             \* log lines of the latest step
    exit_code,          \* NoExit while running
    detected,           \* update_variables assigned VRAM_TOTAL and MAX_VRAM_USAGE
    fault               \* what an external tool did wrong in the latest step

vars == <<pc, AUTODETECT, VRAM_TOTAL, MAX_VRAM_USAGE, last_warning_vram,
          workload, samples, gpu_temp, rearms, alerts, logged, exit_code,
          detected, fault>>

\* ----------------------------------------------------------- pure helpers

\* variant of line 159: pre-armed a full THRESHOLD below the limit
InitialThreshold_FullStep(max) == max - Step

\* line 159
InitialThreshold(max) == max - ARM_MARGIN * Scale

\* variant of line 164: the `last_warning_vram >= MAX_VRAM_USAGE` test dropped
ReArmCond_NoFloor(u, T, max) == u * Scale < T - Step

\* variant of line 164: the usage comparison the wrong way round
ReArmCond_Flipped(u, T, max) == u * Scale > T - Step /\ T >= max

\* line 164
ReArmCond(u, T, max) == u * Scale < T - Step /\ T >= max

\* variant of line 165: snap back to the starting threshold
ReArmUpdate_Snap(T, max) == max - ARM_MARGIN * Scale

\* line 165
ReArmUpdate(T, max) == T - Step

\* variant of line 167: `>=` for `>`
FireCond_Inclusive(u, T) == u * Scale >= T + Step

\* variant of line 167: compared to the threshold itself, margin dropped
FireCond_NoMargin(u, T) == u * Scale > T

\* line 167
FireCond(u, T) == u * Scale > T + Step

\* variant of line 168: raise the threshold up to the sample in one go
FireUpdate_Snap(u, T) == T + Step * ((u * Scale - T) \div Step)

\* variant of line 168: the threshold is not raised
FireUpdate_Stuck(u, T) == T

\* line 168
FireUpdate(u, T) == T + Step

\* line 171: (int)((vram_usage / VRAM_TOTAL) * 100), truncation toward zero
Percent(u, total) == (u * 100) \div total

\* line 88: VRAM_TOTAL * .9, in tenths of MiB
NinetyPercent(total) == total * 9

\* the samples the metrics source can return under the current configuration
Samples == { u \in { (MAX_VRAM_USAGE \div Scale) + d : d \in workload } : u >= 0 }

Tick == Len(samples)

VramAlert(n, u, total) ==
    [tick |-> n, kind |-> "vram", vram_usage |-> u, total |-> total,
     pct |-> Percent(u, total)]

\* ------------------------------------------------------------------- Init
Init ==
    /\ pc = "main"
    /\ AUTODETECT = TRUE
    /\ VRAM_TOTAL \in ScriptTotals
    /\ MAX_VRAM_USAGE = DEFAULT_MAX_VRAM_USAGE * Scale
    /\ last_warning_vram = Unset
    /\ workload \in Workloads
    /\ samples = <<>>
    /\ gpu_temp = Unset
    /\ rearms = {}
    /\ alerts = <<>>
    /\ logged = {}
    /\ exit_code = NoExit
    /\ detected = FALSE
    /\ fault = "none"

\* ---------------------------------------------------------------- startup

\* main() with --noauto: warning logged, start_monitoring entered
MainNoAuto ==
    /\ pc = "main"
    /\ AUTODETECT' = FALSE
    /\ logged' = {"warn"}
    /\ fault' = "none"
    /\ last_warning_vram' = InitialThreshold(MAX_VRAM_USAGE)
    /\ pc' = "monitoring"
    /\ UNCHANGED <<VRAM_TOTAL, MAX_VRAM_USAGE, workload, samples, gpu_temp,
                   rearms, alerts, exit_code, detected>>

\* main() with auto-detect, both nvidia-smi queries succeed
MainAutoDetected ==
    /\ pc = "main"
    /\ \E total \in DetectedTotals :
         /\ VRAM_TOTAL' = total
         /\ MAX_VRAM_USAGE' = NinetyPercent(total)
         /\ last_warning_vram' = InitialThreshold(NinetyPercent(total))
    /\ AUTODETECT' = TRUE
    /\ detected' = TRUE
    /\ fault' = "none"
    /\ logged' = {"log"}
    /\ pc' = "monitoring"
    /\ UNCHANGED <<workload, samples, gpu_temp, rearms, alerts, exit_code>>

\* main() with auto-detect, nvidia-smi returns non-zero: the handler at
\* lines 95-96 logs and returns, and start_monitoring runs on the defaults
MainAutoToolError ==
    /\ pc = "main"
    /\ AUTODETECT' = TRUE
    /\ logged' = {"log", "err"}
    /\ fault' = "detect_error"
    /\ last_warning_vram' = InitialThreshold(MAX_VRAM_USAGE)
    /\ pc' = "monitoring"
    /\ UNCHANGED <<VRAM_TOTAL, MAX_VRAM_USAGE, workload, samples, gpu_temp,
                   rearms, alerts, exit_code, detected>>

\* main() with auto-detect, nvidia-smi absent: lines 98-100, sys.exit()
MainAutoToolMissing ==
    /\ pc = "main"
    /\ AUTODETECT' = TRUE
    /\ logged' = {"log", "err"}
    /\ fault' = "detect_missing"
    /\ pc' = "exited"
    /\ exit_code' = 0
    /\ UNCHANGED <<VRAM_TOTAL, MAX_VRAM_USAGE, last_warning_vram, workload,
                   samples, gpu_temp, rearms, alerts, detected>>

\* main() with auto-detect, memory.total is not an integer: int() at line 84
\* raises ValueError, which no handler catches
MainAutoBadTotal ==
    /\ pc = "main"
    /\ AUTODETECT' = TRUE
    /\ logged' = {"log", "traceback"}
    /\ fault' = "detect_bad_total"
    /\ pc' = "exited"
    /\ exit_code' = 1
    /\ UNCHANGED <<VRAM_TOTAL, MAX_VRAM_USAGE, last_warning_vram, workload,
                   samples, gpu_temp, rearms, alerts, detected>>

\* -------------------------------------------------------------- poll tick

CanPoll == pc = "monitoring" /\ Tick < MaxTicks

\* variant of the loop body: the configuration is detected again on every
\* iteration
ConfigFrame_Redetect ==
    /\ \E total \in DetectedTotals :
         /\ VRAM_TOTAL' = total
         /\ MAX_VRAM_USAGE' = NinetyPercent(total)
    /\ UNCHANGED <<AUTODETECT, detected>>

\* lines 160-172 assign none of the module globals
ConfigFrame == UNCHANGED <<AUTODETECT, VRAM_TOTAL, MAX_VRAM_USAGE, detected>>

\* get_vram_usage or get_temp: CalledProcessError or FileNotFoundError,
\* log_err then sys.exit() (lines 112-120, 131-139)
PollMetricsExit ==
    /\ CanPoll
    /\ fault' \in {"metrics_error", "metrics_missing"}
    /\ logged' = {"err"}
    /\ pc' = "exited"
    /\ exit_code' = 0
    /\ ConfigFrame
    /\ UNCHANGED <<last_warning_vram, workload, samples, gpu_temp, rearms,
                   alerts>>

\* get_vram_usage or get_temp: output without digits, re.search returns
\* None and .group() raises AttributeError, uncaught (lines 111, 130)
PollMetricsNoDigits ==
    /\ CanPoll
    /\ fault' = "metrics_no_digits"
    /\ logged' = {"traceback"}
    /\ pc' = "exited"
    /\ exit_code' = 1
    /\ ConfigFrame
    /\ UNCHANGED <<last_warning_vram, workload, samples, gpu_temp, rearms,
                   alerts>>

\* threshold after the re-arm check of lines 164-165
AfterReArm(u, T, max) == IF ReArmCond(u, T, max) THEN ReArmUpdate(T, max) ELSE T

\* one iteration of the loop at lines 160-172 with both queries answered
\* and no warning due
PollQuiet ==
    /\ CanPoll
    /\ \E u \in Samples, t \in Temps :
         LET T1 == AfterReArm(u, last_warning_vram, MAX_VRAM_USAGE) IN
         /\ ~FireCond(u, T1)
         /\ samples' = Append(samples, u)
         /\ gpu_temp' = t
         /\ rearms' = IF ReArmCond(u, last_warning_vram, MAX_VRAM_USAGE)
                      THEN rearms \cup {Tick + 1} ELSE rearms
         /\ last_warning_vram' = T1
    /\ logged' = {"log"}
    /\ fault' = "none"
    /\ ConfigFrame
    /\ UNCHANGED <<pc, workload, alerts, exit_code>>

\* one iteration with a warning due; notify is what notify-send does:
\* "ok", "error" (CalledProcessError, lines 150-151) or "missing"
\* (FileNotFoundError, uncaught)
PollWarn(notify) ==
    /\ CanPoll
    /\ \E u \in Samples, t \in Temps :
         LET T1 == AfterReArm(u, last_warning_vram, MAX_VRAM_USAGE) IN
         /\ FireCond(u, T1)
         /\ samples' = Append(samples, u)
         /\ gpu_temp' = t
         /\ rearms' = IF ReArmCond(u, last_warning_vram, MAX_VRAM_USAGE)
                      THEN rearms \cup {Tick + 1} ELSE rearms
         /\ last_warning_vram' = FireUpdate(u, T1)
         /\ alerts' = Append(alerts, VramAlert(Tick + 1, u, VRAM_TOTAL))
    /\ logged' = CASE notify = "ok"      -> {"log"}
                   [] notify = "error"   -> {"log", "err"}
                   [] notify = "missing" -> {"log", "traceback"}
    /\ pc' = IF notify = "missing" THEN "exited" ELSE pc
    /\ exit_code' = IF notify = "missing" THEN 1 ELSE exit_code
    /\ fault' = CASE notify = "ok"      -> "none"
                  [] notify = "error"   -> "notify_error"
                  [] notify = "missing" -> "notify_missing"
    /\ ConfigFrame
    /\ UNCHANGED workload

Next ==
    \/ MainNoAuto
    \/ MainAutoDetected
    \/ MainAutoToolError
    \/ MainAutoToolMissing
    \/ MainAutoBadTotal
    \/ PollMetricsExit
    \/ PollMetricsNoDigits
    \/ PollQuiet
    \/ PollWarn("ok")
    \/ PollWarn("error")
    \/ PollWarn("missing")

Spec == Init /\ [][Next]_vars

TypeOK ==
    /\ pc \in {"main", "monitoring", "exited"}
    /\ AUTODETECT \in BOOLEAN
    /\ VRAM_TOTAL \in ScriptTotals \cup DetectedTotals
    /\ Len(samples) <= MaxTicks
    /\ rearms \subseteq 1..MaxTicks
    /\ exit_code \in {NoExit, 0, 1}
    /\ detected \in BOOLEAN
    /\ fault \in {"none", "detect_error", "detect_missing", "detect_bad_total",
                  "metrics_error", "metrics_missing", "metrics_no_digits",
                  "notify_error", "notify_missing"}
\* ------------------------------------------------------------ vocabulary

\* the step is a completed poll tick (a sample reached lines 164-171)
TickStep == Len(samples') = Len(samples) + 1

\* the sample of the tick just taken
NewSample == samples'[Len(samples')]

\* warnings of a given kind handed out on tick n
AlertsAt(n, kind) == { i \in DOMAIN alerts : alerts[i].tick = n /\ alerts[i].kind = kind }

Started == pc # "main"

\* -------------------------------------------------------------------- C1
\* C1: in every reachable state of the monitor loop the alert threshold
\* equals MAX_VRAM_USAGE + k*THRESHOLD for some integer k.
C1_ThresholdOnLattice ==
    Started /\ last_warning_vram # Unset
        => (last_warning_vram - MAX_VRAM_USAGE) % Step = 0

\* -------------------------------------------------------------------- C2
\* C2: when the loop starts, before any sample is processed, the alert
\* threshold equals MAX_VRAM_USAGE - THRESHOLD.
C2_StartsOneStepBelow ==
    pc = "monitoring" /\ samples = <<>>
        => last_warning_vram = MAX_VRAM_USAGE - Step

\* -------------------------------------------------------------------- C3
\* C3: over one poll tick the alert threshold changes by exactly
\* -THRESHOLD, 0 or +THRESHOLD, however far the sample jumped.
C3_OneStepPerTick ==
    [][ pc = "monitoring"
          => last_warning_vram' - last_warning_vram \in {-Step, 0, Step} ]_vars

\* a tick whose sample jumped by more than two THRESHOLDs from the previous
\* sample and moved the threshold
C3_Witness ==
    /\ Tick >= 2
    /\ samples[Tick] - samples[Tick - 1] > 2 * THRESHOLD
    /\ AlertsAt(Tick, "vram") # {}
    /\ AlertsAt(Tick - 1, "vram") = {}

\* -------------------------------------------------------------------- C4
\* C4: on every poll tick a memory alert is emitted iff the sample exceeds
\* the threshold left by that tick's re-arm check plus THRESHOLD; when it
\* is emitted the threshold rises by exactly one THRESHOLD, otherwise the
\* fire check leaves it alone; at most one memory alert per tick.
C4_FireIff ==
    [][ TickStep =>
          LET T == IF Len(samples') \in rearms'
                   THEN last_warning_vram - Step ELSE last_warning_vram
              new == Len(alerts') - Len(alerts)
          IN /\ new \in {0, 1}
             /\ SubSeq(alerts', 1, Len(alerts)) = alerts
             /\ (new = 1) <=> (NewSample * Scale > T + Step)
             /\ new = 1 => /\ alerts'[Len(alerts')].kind = "vram"
                           /\ alerts'[Len(alerts')].tick = Len(samples')
                           /\ last_warning_vram' = T + Step
             /\ new = 0 => last_warning_vram' = T ]_vars

\* a tick that emitted a memory alert, after a tick whose sample sat
\* exactly on threshold + THRESHOLD and emitted none
C4_Witness ==
    /\ Tick >= 2
    /\ AlertsAt(Tick, "vram") # {}
    /\ AlertsAt(Tick - 1, "vram") = {}
    /\ samples[Tick - 1] * Scale = last_warning_vram

\* -------------------------------------------------------------------- C5
\* C5: on every poll tick the re-arm step runs iff the sample is below
\* threshold - THRESHOLD and the threshold is at least MAX_VRAM_USAGE; it
\* lowers the threshold by exactly one THRESHOLD; once the threshold is
\* below MAX_VRAM_USAGE no re-arm happens however low the sample.
C5_ReArmIff ==
    [][ TickStep =>
          LET rearmed == Len(samples') \in rearms' IN
          /\ rearmed <=> /\ NewSample * Scale < last_warning_vram - Step
                         /\ last_warning_vram >= MAX_VRAM_USAGE
          /\ rearmed => last_warning_vram' = last_warning_vram - Step
          /\ last_warning_vram < MAX_VRAM_USAGE
                => ~rearmed /\ last_warning_vram' >= last_warning_vram
          /\ rearms' \ {Len(samples')} = rearms ]_vars

\* two consecutive re-arm ticks brought the threshold below
\* MAX_VRAM_USAGE, and the next tick, as low, did not re-arm
C5_Witness ==
    /\ Tick >= 3
    /\ Tick - 2 \in rearms
    /\ Tick - 1 \in rearms
    /\ Tick \notin rearms
    /\ samples[Tick] * Scale < last_warning_vram - Step
    /\ last_warning_vram < MAX_VRAM_USAGE

\* -------------------------------------------------------------------- C6
\* C6: in every reachable state of the monitor loop the alert threshold is
\* at least MAX_VRAM_USAGE - THRESHOLD.
C6_Floor ==
    Started /\ last_warning_vram # Unset
        => last_warning_vram >= MAX_VRAM_USAGE - Step

\* the threshold came back down by re-arming and usage went on falling
C6_Witness ==
    /\ Tick >= 2
    /\ Tick - 1 \in rearms
    /\ last_warning_vram < MAX_VRAM_USAGE
    /\ samples[Tick] * Scale < last_warning_vram - Step

\* -------------------------------------------------------------------- C7
\* C7: a poll tick whose sample U satisfies T < U <= T + THRESHOLD for the
\* threshold T it starts from emits no memory alert and leaves T alone, so
\* a constant stream of such samples never alerts.
C7_NoAlertStorm ==
    [][ /\ TickStep
        /\ last_warning_vram < NewSample * Scale
        /\ NewSample * Scale <= last_warning_vram + Step
        => /\ last_warning_vram' = last_warning_vram
           /\ alerts' = alerts ]_vars

\* after an alert, the same sample came twice more inside the band
C7_Witness ==
    /\ Tick >= 3
    /\ samples[Tick] = samples[Tick - 1]
    /\ samples[Tick] = samples[Tick - 2]
    /\ AlertsAt(Tick - 2, "vram") # {}
    /\ AlertsAt(Tick - 1, "vram") = {}
    /\ AlertsAt(Tick, "vram") = {}
    /\ last_warning_vram < samples[Tick] * Scale
    /\ samples[Tick] * Scale <= last_warning_vram + Step

\* -------------------------------------------------------------------- C8
\* C8: a temperature alert is emitted on a poll tick iff that tick's
\* temperature sample is above MAX_TEMP.
C8_TempAlertIff ==
    Started /\ Tick > 0
        => ((gpu_temp > MAX_TEMP) <=> AlertsAt(Tick, "temp") # {})

C10_WorkedExample ==
    MAX_VRAM_USAGE = 3800 * Scale /\ pc = "monitoring" =>
        /\ samples = <<>> => last_warning_vram = 3700 * Scale
        /\ samples = <<3801>>
             => alerts = <<>> /\ last_warning_vram = 3700 * Scale
        /\ samples = <<3801, 3901>>
             => /\ Len(alerts) = 1
                /\ alerts[1].tick = 2
                /\ last_warning_vram = 3800 * Scale
        /\ samples = <<3801, 3901, 3799>>
             => /\ Len(alerts) = 1
                /\ 3 \notin rearms
                /\ last_warning_vram = 3800 * Scale
\* ------------------------------------------------------------------- C11
\* C11: every emitted memory alert carries the sample of its tick,
\* VRAM_TOTAL, and the percentage 100*U/VRAM_TOTAL rounded to the nearest
\* integer.
C11_AlertCarriesRoundedPercent ==
    \A i \in DOMAIN alerts :
        alerts[i].kind = "vram" =>
            /\ alerts[i].vram_usage = samples[alerts[i].tick]
            /\ alerts[i].total = VRAM_TOTAL
            /\ alerts[i].pct =
                 (200 * alerts[i].vram_usage + VRAM_TOTAL) \div (2 * VRAM_TOTAL)

\* ------------------------------------------------------------------- C12
\* C12: whenever notify-send fails, by returning an error or by being
\* absent, the failure is logged, the threshold update of the tick is kept
\* and the loop stays running.
C12_NotifierFailureSurvived ==
    [][ fault' \in {"notify_error", "notify_missing"}
          => /\ "err" \in logged'
             /\ last_warning_vram' = last_warning_vram + Step
             /\ pc' = "monitoring"
             /\ exit_code' = NoExit ]_vars

\* ------------------------------------------------------------------- C13
\* C13: whenever a metrics query of a tick fails (tool missing, non-zero
\* return, or output without a number), an error is logged and the process
\* terminates in that tick without evaluating the state machine, without
\* an alert, and no later tick happens.
C13_MetricsFailureStops ==
    [][ /\ fault' \in {"metrics_error", "metrics_missing", "metrics_no_digits"}
          => /\ "err" \in logged'
             /\ pc' = "exited"
             /\ samples' = samples
             /\ rearms' = rearms
             /\ alerts' = alerts
             /\ last_warning_vram' = last_warning_vram
        /\ pc = "exited" => samples' = samples /\ alerts' = alerts ]_vars

\* ------------------------------------------------------------------- C14
\* C14: every termination the program brings about itself (metrics tool
\* missing or failing during a poll, auto-detect failing at startup) has a
\* non-zero exit code.
C14_FatalExitsNonZero ==
    pc = "exited" => exit_code # 0

\* ------------------------------------------------------------------- C15
\* C15: with auto-detect enabled, a failed startup query terminates the
\* process before any sample; the loop never runs with auto-detect enabled
\* on values that were not detected.
C15_NoLoopOnUndetected ==
    AUTODETECT /\ Started /\ ~detected
        => pc = "exited" /\ samples = <<>>

\* ------------------------------------------------------------------- C16
\* C16: no poll tick both re-arms and fires.
C16_ReArmExcludesFire ==
    \A n \in 1..Tick : ~(n \in rearms /\ AlertsAt(n, "vram") # {})

\* usage crossed back: an alert tick directly followed by a re-arm tick
C16_Witness ==
    /\ Tick >= 2
    /\ Tick \in rearms
    /\ AlertsAt(Tick, "vram") = {}
    /\ AlertsAt(Tick - 1, "vram") # {}

\* ------------------------------------------------------------------- C17
\* C17: under a constant sample the state machine settles.  Every tick
\* that moves the threshold brings it exactly one THRESHOLD closer to the
\* sample without reaching it, so only finitely many ticks move it; a tick
\* alerts exactly when the sample is more than one THRESHOLD above the
\* threshold, and then the threshold climbs one THRESHOLD; and once a tick
\* was quiet, the next tick with the same sample is quiet too.
C17_Settles ==
    /\ [][ TickStep =>
             LET u  == NewSample * Scale
                 d0 == IF u >= last_warning_vram
                       THEN u - last_warning_vram ELSE last_warning_vram - u
                 d1 == IF u >= last_warning_vram'
                       THEN u - last_warning_vram' ELSE last_warning_vram' - u
             IN /\ last_warning_vram' # last_warning_vram
                     => d1 = d0 - Step /\ d1 > 0
                /\ alerts' # alerts
                     <=> /\ u > last_warning_vram + Step
                         /\ last_warning_vram' = last_warning_vram + Step ]_vars
    /\ [](\A n \in 2..Tick :
            /\ samples[n] = samples[n - 1]
            /\ n - 1 \notin rearms
            /\ AlertsAt(n - 1, "vram") = {}
            => n \notin rearms /\ AlertsAt(n, "vram") = {})

\* five identical samples: alerts on the first three ticks while the
\* threshold climbs, then two quiet ticks
C17_Witness ==
    /\ Tick >= 5
    /\ \A n \in 2..5 : samples[n] = samples[1]
    /\ \A n \in 1..3 : AlertsAt(n, "vram") # {}
    /\ \A n \in 4..5 : AlertsAt(n, "vram") = {} /\ n \notin rearms
    /\ last_warning_vram = InitialThreshold(MAX_VRAM_USAGE) + 3 * Step

\* ------------------------------------------------------------------- C18
\* C18: once the loop runs, no step changes VRAM_TOTAL, MAX_VRAM_USAGE or
\* AUTODETECT (THRESHOLD, MAX_TEMP and WAITTIME are never assigned at all);
\* the threshold changes only in a poll tick, and a tick that neither
\* re-arms nor fires leaves it unchanged.
C18_TickFrame ==
    [][ pc = "monitoring" =>
          /\ VRAM_TOTAL' = VRAM_TOTAL
          /\ MAX_VRAM_USAGE' = MAX_VRAM_USAGE
          /\ AUTODETECT' = AUTODETECT
          /\ ~TickStep => last_warning_vram' = last_warning_vram
          /\ TickStep /\ Len(samples') \notin rearms' /\ alerts' = alerts
               => last_warning_vram' = last_warning_vram ]_vars

\* after a successful auto-detect, an alert tick and then a tick that
\* neither re-armed nor fired
C18_Witness ==
    /\ detected
    /\ Tick >= 2
    /\ AlertsAt(Tick - 1, "vram") # {}
    /\ AlertsAt(Tick, "vram") = {}
    /\ Tick \notin rearms
    /\ MAX_VRAM_USAGE = NinetyPercent(VRAM_TOTAL)

\* ------------------------------------------------------------------- C19
\* C19: whenever the loop starts, after a successful auto-detect or with
\* the static values under --noauto, VRAM_TOTAL > 0 and
\* 0 < MAX_VRAM_USAGE <= VRAM_TOTAL.
C19_CeilingWithinCapacity ==
    pc = "monitoring" /\ (detected \/ ~AUTODETECT)
        => /\ VRAM_TOTAL > 0
           /\ MAX_VRAM_USAGE > 0
           /\ MAX_VRAM_USAGE <= VRAM_TOTAL * Scale
====
